---- MODULE Spec2Model ----
(***************************************************************************)
(* RoutePlanner of DSA_LabProject.cpp: a road graph held in adjacency      *)
(* lists, and findRoute, a Dijkstra search by travel time that carries the *)
(* distance and the fuel of the best known path along, followed by         *)
(* printDetailedReceipt, which walks the parent array back from the        *)
(* destination and prints one leg per pair of consecutive cities.          *)
(*                                                                         *)
(* Arithmetic.  The program computes times, distances and fuel in C++      *)
(* double: binary floating point, every operation rounded to nearest,      *)
(* ties to even.  The model keeps exactly that arithmetic but with a       *)
(* mantissa of MantBits bits in place of 53: a value is a record           *)
(* [m, e] standing for m * 2^e.  Rounding is what makes a sum depend on    *)
(* the order of its terms, so it is modelled, not assumed away.            *)
(***************************************************************************)
EXTENDS Integers, Sequences, FiniteSets, TLC

\* ------------------------------------------------------------------------
\* Bounds of the model
\* ------------------------------------------------------------------------

\* Width of the mantissa of the model's floating point numbers.
MantBits == 4

\* Number of addRoad calls made during setup.
MaxRoads == 3

\* Number of addRoad calls made during setup when findRoute is also called
\* with a negative speed (SpecAnySpeed).
MaxRoadsAnySpeed == 1

\* Number of elements the path vector of printDetailedReceipt can hold
\* before push_back fails with std::bad_alloc.
MaxPath == 8

\* ------------------------------------------------------------------------
\* Configuration constants of the program
\* ------------------------------------------------------------------------

MAX_CITIES == 20

CityIndex == 0 .. (MAX_CITIES - 1)

TrafficLevel == {"LOW", "MODERATE", "HIGH", "JAMMED"}

RoadType == {"MOTORWAY", "HIGHWAY", "LOCAL"}

\* ------------------------------------------------------------------------
\* double: floating point with round-to-nearest-even
\* ------------------------------------------------------------------------

Zero == [m |-> 0, e |-> 0]

\* +infinity, the IEEE result of dividing a positive double by zero.
PosInf == [m |-> 1, e |-> 1024]

IsInf(a) == a.e = 1024

Abs(i) == IF i < 0 THEN -i ELSE i

Neg(a) == [m |-> -a.m, e |-> a.e]

\* The double nearest to (n / d) * 2^e, for n >= 0 and d > 0: the quotient
\* is scaled until it has MantBits bits, then rounded, ties to even.
RECURSIVE RoundRat(_, _, _)
RoundRat(n, d, e) ==
    IF n = 0 THEN Zero
    ELSE IF n >= d * 2^MantBits THEN RoundRat(n, 2 * d, e + 1)
    ELSE IF n < d * 2^(MantBits - 1) THEN RoundRat(2 * n, d, e - 1)
    ELSE LET q == n \div d
             r == n % d
             up == (2 * r > d) \/ (2 * r = d /\ q % 2 = 1)
             mm == IF up THEN q + 1 ELSE q
         IN  IF mm = 2^MantBits
             THEN [m |-> 2^(MantBits - 1), e |-> e + 1]
             ELSE [m |-> mm, e |-> e]

FRound(n, d, e) ==
    IF n < 0 THEN Neg(RoundRat(-n, d, e)) ELSE RoundRat(n, d, e)

\* Conversion of an int, or of an integer literal, to double.
FromInt(i) == FRound(i, 1, 0)

\* a + b
FAdd(a, b) ==
    IF IsInf(a) \/ IsInf(b) THEN PosInf
    ELSE IF a.m = 0 THEN b
    ELSE IF b.m = 0 THEN a
    ELSE IF a.e - b.e > MantBits + 1 THEN a
    ELSE IF b.e - a.e > MantBits + 1 THEN b
    ELSE LET lo == IF a.e < b.e THEN a.e ELSE b.e
         IN  FRound(a.m * 2^(a.e - lo) + b.m * 2^(b.e - lo), 1, lo)

\* a - b
FSub(a, b) == FAdd(a, Neg(b))

\* a * b
FMul(a, b) ==
    IF IsInf(a) \/ IsInf(b) THEN PosInf
    ELSE FRound(a.m * b.m, 1, a.e + b.e)

\* a / b; a positive double divided by zero is +infinity
FDiv(a, b) ==
    IF b.m = 0 THEN PosInf
    ELSE IF (a.m < 0) = (b.m < 0)
         THEN RoundRat(Abs(a.m), Abs(b.m), a.e - b.e)
         ELSE Neg(RoundRat(Abs(a.m), Abs(b.m), a.e - b.e))

\* a < b
FLess(a, b) ==
    IF IsInf(a) THEN FALSE
    ELSE IF IsInf(b) THEN TRUE
    ELSE IF a.m = 0 \/ b.m = 0 \/ (a.m < 0) # (b.m < 0) THEN a.m < b.m
    ELSE IF a.e - b.e > MantBits THEN a.m < 0
    ELSE IF b.e - a.e > MantBits THEN a.m > 0
    ELSE LET lo == IF a.e < b.e THEN a.e ELSE b.e
         IN  a.m * 2^(a.e - lo) < b.m * 2^(b.e - lo)

\* max(a, b) of <cmath>/<algorithm>: a unless a < b
FMax(a, b) == IF FLess(a, b) THEN b ELSE a

\* (int) a: truncation towards zero
FTrunc(a) ==
    IF a.e >= 0 THEN a.m * 2^a.e
    ELSE IF a.m >= 0 THEN a.m \div 2^(-a.e)
    ELSE -((-a.m) \div 2^(-a.e))

INF == FRound(1000000000, 1, 0)

PRICE_PETROL == FromInt(280)

\* ------------------------------------------------------------------------
\* Cost functions
\* ------------------------------------------------------------------------

getTrafficMultiplier(level) ==
    CASE level = "LOW"      -> FromInt(1)
      [] level = "MODERATE" -> FRound(12, 10, 0)
      [] level = "HIGH"     -> FRound(15, 10, 0)
      [] level = "JAMMED"   -> FRound(25, 10, 0)
      [] OTHER              -> FromInt(1)

getTrafficString(level) ==
    CASE level = "LOW"      -> "Clear"
      [] level = "MODERATE" -> "Moderate"
      [] level = "HIGH"     -> "Heavy"
      [] level = "JAMMED"   -> "Jammed"
      [] OTHER              -> "Unknown"

calculateFuelEfficiency(spd, type) ==
    LET baseEfficiency ==
            IF type = "LOCAL" THEN FSub(FromInt(16), FromInt(4)) ELSE FromInt(16)
    IN  IF spd > 90
        THEN LET excess == FromInt(spd - 90)
                 drop == FDiv(FMul(excess, excess), FromInt(400))
             IN  FMax(FromInt(5), FSub(baseEfficiency, drop))
        ELSE IF spd < 40
        THEN FSub(baseEfficiency, FromInt(3))
        ELSE baseEfficiency

\* realTime with the distance multiplied by the speed where it is divided.
realTimeTimesSpeed(edge, spd) ==
    FMul(FMul(FMul(edge.distanceKM, FromInt(spd)), FromInt(60)),
         getTrafficMultiplier(edge.traffic))

\* realTime of the relaxation: (distanceKM / speed) * 60.0 * multiplier
realTime(edge, spd) ==
    FMul(FMul(FDiv(edge.distanceKM, FromInt(spd)), FromInt(60)),
         getTrafficMultiplier(edge.traffic))

\* fuel of one segment: distanceKM / calculateFuelEfficiency(speed, type)
segmentFuel(edge, spd) ==
    FDiv(edge.distanceKM, calculateFuelEfficiency(spd, edge.type))

\* ------------------------------------------------------------------------
\* Inputs
\* ------------------------------------------------------------------------

\* Names given to the cities, by identifier.
CityName(id) ==
    CASE id = 1 -> "Karachi"
      [] id = 2 -> "Hyderabad"
      [] id = 3 -> "Sukkur"
      [] id = 4 -> "Multan"
      [] OTHER  -> "Elsewhere"

\* The roads the data source can register, as arguments of addRoad:
\* <<u, v, dist, traf, type, name>>.  They make a chain 1-2-3-4, a direct
\* road 1-3 slower than the way through 2, and a second, slower and longer,
\* road between 1 and 2.
RoadData ==
    { <<1, 2, 1, "LOW",    "MOTORWAY", "M-9 Motorway">>,
      <<2, 3, 1, "LOW",    "HIGHWAY",  "N-5 National Hwy">>,
      <<3, 4, 1, "JAMMED", "LOCAL",    "Canal Road">>,
      <<1, 3, 1, "JAMMED", "HIGHWAY",  "N-65 Highway">>,
      <<1, 2, 3, "JAMMED", "LOCAL",    "Old Trunk Road">> }

\* The cities of the road data: the identifiers handed to addCity, and to
\* findRoute as start and end.
CityIds == {r[1] : r \in RoadData} \cup {r[2] : r \in RoadData}

\* Speeds findRoute is called with: zero, below 40, between 40 and 90, and
\* above 90 with the efficiency floor in force.
Speeds == {0, 24, 40, 160}

\* A negative speed, tried on the smaller maps of SpecAnySpeed.
NegSpeeds == {-40}

\* ------------------------------------------------------------------------
\* State
\* ------------------------------------------------------------------------

VARIABLES
    cityNames,      \* string cityNames[MAX_CITIES]
    cityCount,      \* int cityCount
    adj,            \* vector<Edge> adj[MAX_CITIES]
    pc,             \* where the program is: setup, inside findRoute, or its outcome
    startNode,      \* arguments of the findRoute call
    endNode,
    speed,
    pq,             \* priority_queue<PqNode>; entries are pairwise distinct
    minTime,        \* locals of findRoute
    parent,
    fuelConsumed,
    pathDist,
    expanded,       \* history: how often each city's roads were relaxed in this call
    path,           \* vector<int> path of printDetailedReceipt
    out             \* what printDetailedReceipt printed

graph == <<cityNames, cityCount, adj>>
args == <<startNode, endNode, speed>>
search == <<pq, minTime, parent, fuelConsumed, pathDist, expanded>>
vars == <<cityNames, cityCount, adj, pc, startNode, endNode, speed, pq, minTime,
          parent, fuelConsumed, pathDist, expanded, path, out>>

NoOutput == [legs |-> <<>>, totalDist |-> Zero, totalTime |-> Zero,
             totalFuel |-> Zero, hrs |-> 0, mins |-> 0, cost |-> Zero]

\* The search state at the start of a findRoute call, before startNode is set up.
FreshSearch ==
    [pq |-> {},
     minTime |-> [c \in CityIndex |-> INF],
     parent |-> [c \in CityIndex |-> -1],
     fuelConsumed |-> [c \in CityIndex |-> Zero],
     pathDist |-> [c \in CityIndex |-> Zero]]

\* RoutePlanner(): cityCount = 0, the arrays empty.  (initializeMapData is a
\* fixed sequence of addCity and addRoad calls; here the data source makes
\* its calls from the inputs above.)
Init ==
    /\ cityNames = [c \in CityIndex |-> ""]
    /\ cityCount = 0
    /\ adj = [c \in CityIndex |-> <<>>]
    /\ pc = "setup"
    /\ startNode = 0
    /\ endNode = 0
    /\ speed = 0
    /\ pq = FreshSearch.pq
    /\ minTime = FreshSearch.minTime
    /\ parent = FreshSearch.parent
    /\ fuelConsumed = FreshSearch.fuelConsumed
    /\ pathDist = FreshSearch.pathDist
    /\ expanded = [c \in CityIndex |-> 0]
    /\ path = <<>>
    /\ out = NoOutput

\* ------------------------------------------------------------------------
\* Map data initialization
\* ------------------------------------------------------------------------

IMax(a, b) == IF a < b THEN b ELSE a

NumRoads == LET RECURSIVE Sum(_)
                Sum(c) == IF c = MAX_CITIES THEN 0 ELSE Len(adj[c]) + Sum(c + 1)
            IN  Sum(0) \div 2

addCity(id, name) ==
    /\ pc = "setup"
    /\ IF id < MAX_CITIES
       THEN /\ cityNames' = [cityNames EXCEPT ![id] = name]
            /\ cityCount' = IMax(cityCount, id)
       ELSE UNCHANGED <<cityNames, cityCount>>
    /\ UNCHANGED <<adj, pc, args, search, path, out>>

Edge(dest, dist, traf, type, name) ==
    [destination |-> dest, distanceKM |-> FromInt(dist), traffic |-> traf,
     type |-> type, roadName |-> name]

\* addRoad without its second push_back: the road leads from u to v only.
addRoadOneWay(u, v, dist, traf, type, name) ==
    /\ pc = "setup"
    /\ adj' = [adj EXCEPT ![u] = Append(@, Edge(v, dist, traf, type, name))]
    /\ UNCHANGED <<cityNames, cityCount, pc, args, search, path, out>>

addRoad(u, v, dist, traf, type, name) ==
    /\ pc = "setup"
    /\ LET a1 == [adj EXCEPT ![u] = Append(@, Edge(v, dist, traf, type, name))]
       IN  adj' = [a1 EXCEPT ![v] = Append(@, Edge(u, dist, traf, type, name))]
    /\ UNCHANGED <<cityNames, cityCount, pc, args, search, path, out>>

\* ------------------------------------------------------------------------
\* findRoute: the search
\* ------------------------------------------------------------------------

\* if (startNode < 1 || startNode > cityCount || endNode < 1 || endNode > cityCount)
InvalidCityId(s, e, count) == s < 1 \/ s > count \/ e < 1 \/ e > count

\* minTime[startNode] = 0; pq.push({startNode, 0});
StartSearch(s) ==
    [FreshSearch EXCEPT !.minTime[s] = Zero,
                        !.pq = {[id |-> s, timeCost |-> Zero]}]

\* The relaxation test of a search that keeps the first time it finds.
ImprovesFirstOnly(newTime, oldTime) == oldTime = INF

\* if (minTime[u] + realTime < minTime[v])
Improves(newTime, oldTime) == FLess(newTime, oldTime)

\* relaxEdge with the distance accumulated from pathDist[v] in place of
\* pathDist[u].
relaxEdgeDistFromV(st, u, edge, spd) ==
    LET v == edge.destination
        newTime == FAdd(st.minTime[u], realTime(edge, spd))
    IN  IF Improves(newTime, st.minTime[v])
        THEN [st EXCEPT
                !.minTime[v] = newTime,
                !.parent[v] = u,
                !.pathDist[v] = FAdd(st.pathDist[v], edge.distanceKM),
                !.fuelConsumed[v] = FAdd(st.fuelConsumed[u], segmentFuel(edge, spd)),
                !.pq = @ \cup {[id |-> v, timeCost |-> newTime]}]
        ELSE st

\* relaxEdge that sets parent[v] only the first time v is reached.
relaxEdgeKeepsParent(st, u, edge, spd) ==
    LET v == edge.destination
        newTime == FAdd(st.minTime[u], realTime(edge, spd))
    IN  IF Improves(newTime, st.minTime[v])
        THEN [st EXCEPT
                !.minTime[v] = newTime,
                !.parent[v] = IF @ = -1 THEN u ELSE @,
                !.pathDist[v] = FAdd(st.pathDist[u], edge.distanceKM),
                !.fuelConsumed[v] = FAdd(st.fuelConsumed[u], segmentFuel(edge, spd)),
                !.pq = @ \cup {[id |-> v, timeCost |-> newTime]}]
        ELSE st

\* The body of the loop over adj[u], for one edge.
relaxEdge(st, u, edge, spd) ==
    LET v == edge.destination
        newTime == FAdd(st.minTime[u], realTime(edge, spd))
    IN  IF Improves(newTime, st.minTime[v])
        THEN [st EXCEPT
                !.minTime[v] = newTime,
                !.parent[v] = u,
                !.pathDist[v] = FAdd(st.pathDist[u], edge.distanceKM),
                !.fuelConsumed[v] = FAdd(st.fuelConsumed[u], segmentFuel(edge, spd)),
                !.pq = @ \cup {[id |-> v, timeCost |-> newTime]}]
        ELSE st

\* for (auto& edge : adj[u]), from the i-th edge on, in the order of the list
RECURSIVE relaxEdges(_, _, _, _, _)
relaxEdges(st, u, edges, i, spd) ==
    IF i > Len(edges) THEN st
    ELSE relaxEdges(relaxEdge(st, u, edges[i], spd), u, edges, i + 1, spd)

\* The loop without its test for entries that are out of date.
StaleNever(st, top) == FALSE

\* if (currentTime > minTime[u]) continue;
Stale(st, top) == FLess(st.minTime[top.id], top.timeCost)

\* pq.top(): an entry no other entry is smaller than; which one of several
\* equal entries the heap yields is not fixed here.
IsTop(q, top) == top \in q /\ \A o \in q : ~FLess(o.timeCost, top.timeCost)

\* One iteration of while (!pq.empty()) with `top` the entry popped.
popNode(st, top, roads, spd) ==
    LET st1 == [st EXCEPT !.pq = @ \ {top}]
    IN  IF Stale(st1, top) THEN st1
        ELSE relaxEdges(st1, top.id, roads[top.id], 1, spd)

\* What a findRoute call can end in: one of its two messages, or the receipt.
Outcomes == {"invalid_city", "unreachable", "route"}

\* The test made against the infinity of double in place of the constant INF.
IsUnreachableInfinity(mt, e) == IsInf(mt[e])

\* if (minTime[endNode] == INF)
IsUnreachable(mt, e) == mt[e] = INF

SearchNow ==
    [pq |-> pq, minTime |-> minTime, parent |-> parent,
     fuelConsumed |-> fuelConsumed, pathDist |-> pathDist]

SetSearch(st) ==
    /\ pq' = st.pq
    /\ minTime' = st.minTime
    /\ parent' = st.parent
    /\ fuelConsumed' = st.fuelConsumed
    /\ pathDist' = st.pathDist

\* The call: validation of the identifiers and set-up of the locals.
findRoute(s, e, spd) ==
    /\ pc \in {"setup"} \cup Outcomes
    /\ startNode' = s
    /\ endNode' = e
    /\ speed' = spd
    /\ expanded' = [c \in CityIndex |-> 0]
    /\ path' = <<>>
    /\ out' = NoOutput
    /\ IF InvalidCityId(s, e, cityCount)
       THEN /\ pc' = "invalid_city"
            /\ SetSearch(FreshSearch)
       ELSE /\ pc' = "search"
            /\ SetSearch(StartSearch(s))
    /\ UNCHANGED graph

\* One iteration of the while loop.
findRoute_pop ==
    /\ pc = "search"
    /\ \E top \in pq :
          /\ IsTop(pq, top)
          /\ SetSearch(popNode(SearchNow, top, adj, speed))
          /\ expanded' = IF Stale(SearchNow, top) THEN expanded
                         ELSE [expanded EXCEPT ![top.id] = @ + 1]
    /\ UNCHANGED <<graph, pc, args, path, out>>

\* After the loop: if (minTime[endNode] == INF) ... else printDetailedReceipt(...)
findRoute_end ==
    /\ pc = "search"
    /\ pq = {}
    /\ pc' = IF IsUnreachable(minTime, endNode) THEN "unreachable" ELSE "walk"
    /\ UNCHANGED <<graph, args, search, path, out>>

\* ------------------------------------------------------------------------
\* printDetailedReceipt
\* ------------------------------------------------------------------------

\* The loop variable v of for (int v = end; v != -1; v = parent[v])
walkPos(pth, par, e) == IF pth = <<>> THEN e ELSE par[pth[Len(pth)]]

\* for (auto& e : adj[u]) if (e.destination == v) { ...; break; }
RECURSIVE findRoad(_, _, _)
findRoad(edges, i, v) ==
    IF i > Len(edges)
    THEN [roadName |-> "Unknown", cond |-> "Unknown", dist |-> Zero]
    ELSE IF edges[i].destination = v
    THEN [roadName |-> edges[i].roadName,
          cond |-> getTrafficString(edges[i].traffic),
          dist |-> edges[i].distanceKM]
    ELSE findRoad(edges, i + 1, v)

\* The rows printed by for (int i = path.size() - 1; i > 0; i--), first row first.
\* path is 1-based here: the rows run from k = Len(path) down to 2.
RECURSIVE legRows(_, _, _)
legRows(pth, k, roads) ==
    IF k < 2 THEN <<>>
    ELSE LET u == pth[k]
             v == pth[k - 1]
             r == findRoad(roads[u], 1, v)
         IN  <<[from |-> u, to |-> v, roadName |-> r.roadName,
                cond |-> r.cond, dist |-> r.dist]>>
             \o legRows(pth, k - 1, roads)

\* C++ int division and remainder: the quotient is truncated towards zero
CDiv(a, b) == IF a >= 0 THEN a \div b ELSE -((-a) \div b)
CMod(a, b) == a - b * CDiv(a, b)

receipt(pth, roads, totalTime, totalDist, totalFuel) ==
    [legs |-> legRows(pth, Len(pth), roads),
     totalDist |-> totalDist,
     totalTime |-> totalTime,
     totalFuel |-> totalFuel,
     hrs |-> CDiv(FTrunc(totalTime), 60),
     mins |-> CMod(FTrunc(totalTime), 60),
     cost |-> FMul(totalFuel, PRICE_PETROL)]

\* One iteration of the backtracking loop: path.push_back(v).  The vector
\* cannot grow beyond MaxPath elements: push_back then throws std::bad_alloc,
\* which nothing catches, and the program is terminated.
printDetailedReceipt_walk ==
    /\ pc = "walk"
    /\ walkPos(path, parent, endNode) # -1
    /\ IF Len(path) < MaxPath
       THEN path' = Append(path, walkPos(path, parent, endNode)) /\ pc' = pc
       ELSE path' = path /\ pc' = "bad_alloc"
    /\ UNCHANGED <<graph, args, search, out>>

\* The loop has ended (v == -1): the legs and the totals are printed.
printDetailedReceipt_print ==
    /\ pc = "walk"
    /\ walkPos(path, parent, endNode) = -1
    /\ out' = receipt(path, adj, minTime[endNode], pathDist[endNode],
                      fuelConsumed[endNode])
    /\ pc' = "route"
    /\ UNCHANGED <<graph, args, search, path>>

\* ------------------------------------------------------------------------
\* Specification
\* ------------------------------------------------------------------------

Registered(id) == id \in CityIndex /\ cityNames[id] # ""

\* The data source: it registers cities, one of them with an identifier the
\* arrays have no room for, and up to `limit` roads between cities it has
\* registered.
Setup(limit) ==
    \/ \E id \in CityIds \cup {MAX_CITIES} : addCity(id, CityName(id))
    \/ \E r \in RoadData :
          /\ NumRoads < limit
          /\ Registered(r[1])
          /\ Registered(r[2])
          /\ addRoad(r[1], r[2], r[3], r[4], r[5], r[6])

\* The steps a findRoute call takes by itself once it has been made.
QueryStep ==
    \/ findRoute_pop
    \/ findRoute_end
    \/ printDetailedReceipt_walk
    \/ printDetailedReceipt_print

\* A call is under way: one of the steps of QueryStep can be taken (in the
\* search, a pop or the end of the loop; in the walk, a push or the print).
Running == pc \in {"search", "walk"}

Next ==
    \/ Setup(MaxRoads)
    \/ \E s \in CityIds, e \in CityIds, spd \in Speeds : findRoute(s, e, spd)
    \/ QueryStep

Spec == Init /\ [][Next]_vars

\* The same program, called with negative speeds as well, on smaller maps.
NextAnySpeed ==
    \/ Setup(MaxRoadsAnySpeed)
    \/ \E s \in CityIds, e \in CityIds, spd \in Speeds \cup NegSpeeds :
          findRoute(s, e, spd)
    \/ QueryStep

SpecAnySpeed == Init /\ [][NextAnySpeed]_vars

\* ------------------------------------------------------------------------
\* Notions the properties are stated with
\* ------------------------------------------------------------------------

EdgesOf(roads, u) == {roads[u][i] : i \in 1 .. Len(roads[u])}

\* The roads of the map that lead from a straight to b.
DirectRoads(a, b) == {ed \in EdgesOf(adj, a) : ed.destination = b}

\* The cities that can be reached from the cities of `seen` along roads.
RECURSIVE ReachableFrom(_)
ReachableFrom(seen) ==
    LET more == seen \cup {ed.destination : ed \in UNION {EdgesOf(adj, u) : u \in seen}}
    IN  IF more = seen THEN seen ELSE ReachableFrom(more)

Connected(a, b) == b \in ReachableFrom({a})

\* The total times of all paths from u to `target` that visit no city twice,
\* given that the way to u has taken `acc` so far and has visited `visited`:
\* the time of a path is the sum of the times of its roads, added up in the
\* order of travel.
RECURSIVE PathTimes(_, _, _, _, _)
PathTimes(u, target, visited, acc, spd) ==
    IF u = target THEN {acc}
    ELSE UNION { PathTimes(ed.destination, target, visited \cup {ed.destination},
                           FAdd(acc, realTime(ed, spd)), spd)
                 : ed \in {x \in EdgesOf(adj, u) : x.destination \notin visited} }

\* As PathTimes, for the paths of two roads or more.
LongPathTimes(a, b, spd) ==
    UNION { PathTimes(ed.destination, b, {a, ed.destination},
                      FAdd(Zero, realTime(ed, spd)), spd)
            : ed \in {x \in EdgesOf(adj, a) : x.destination \notin {a, b}} }

IsLeast(t, times) == t \in times /\ \A o \in times : ~FLess(o, t)

\* The arguments of the call are registered cities, the speed is positive.
ValidCall == Registered(startNode) /\ Registered(endNode) /\ speed > 0

\* The while loop of findRoute has ended.
SearchEnded == pc \in {"unreachable", "walk", "route", "bad_alloc"}

\* ------------------------------------------------------------------------
\* C1
\* ------------------------------------------------------------------------

\* C1: when findRoute is called with registered, connected start and end and
\* a speed > 0, its search ends with a route, and the total time it hands to
\* the receipt is the least of the total times of all paths from start to
\* end (each the sum of its roads' times distanceKM / speed * 60 *
\* multiplier, added in the order of travel): no path is strictly faster.
C1_MinimalTime ==
    (SearchEnded /\ ValidCall /\ Connected(startNode, endNode)) =>
        /\ pc \in {"walk", "route"}
        /\ IsLeast(minTime[endNode],
                   PathTimes(startNode, endNode, {startNode}, Zero, speed))
        /\ pc = "route" => out.totalTime = minTime[endNode]

\* A route of two legs has been printed although a direct road exists.
C1_Witness ==
    /\ pc = "route"
    /\ ValidCall
    /\ Len(out.legs) = 2
    /\ DirectRoads(startNode, endNode) # {}

\* ------------------------------------------------------------------------
\* C2
\* ------------------------------------------------------------------------

\* C2 as claimed: whenever registered cities joined by a direct road are
\* queried with a valid speed, the route has exactly one leg and the
\* reported distance is the length of a direct road.
C2_DirectRoadSingleLeg ==
    (pc = "route" /\ ValidCall /\ DirectRoads(startNode, endNode) # {}) =>
        /\ Len(out.legs) = 1
        /\ \E ed \in DirectRoads(startNode, endNode) : out.totalDist = ed.distanceKM

\* The first road of the list of a that leads to b and is as fast as any
\* road from a to b.
RECURSIVE FirstFastestDirect(_, _, _, _)
FirstFastestDirect(a, b, i, spd) ==
    LET ed == adj[a][i]
    IN  IF /\ ed.destination = b
           /\ \A o \in DirectRoads(a, b) : ~FLess(realTime(o, spd), realTime(ed, spd))
        THEN ed
        ELSE FirstFastestDirect(a, b, i + 1, spd)

\* C2, amended: for distinct registered cities A and B joined by a direct
\* road and a speed > 0, if no path of two or more roads is strictly faster
\* than the fastest direct road, the route has exactly one leg, A to B, and
\* the reported total distance is the length of the first of the fastest
\* direct roads in A's list.
C2_FastestDirectRoadSingleLeg ==
    (/\ pc = "route"
     /\ ValidCall
     /\ startNode # endNode
     /\ DirectRoads(startNode, endNode) # {}
     /\ LET best == realTime(FirstFastestDirect(startNode, endNode, 1, speed), speed)
        IN  \A t \in LongPathTimes(startNode, endNode, speed) :
                ~FLess(t, FAdd(Zero, best)))
    =>
        /\ Len(out.legs) = 1
        /\ out.legs[1].from = startNode
        /\ out.legs[1].to = endNode
        /\ out.totalDist =
              FirstFastestDirect(startNode, endNode, 1, speed).distanceKM

\* A one-leg route between distinct cities that a longer path joins as well.
C2_Witness ==
    /\ pc = "route"
    /\ ValidCall
    /\ startNode # endNode
    /\ Len(out.legs) = 1
    /\ LongPathTimes(startNode, endNode, speed) # {}

\* ------------------------------------------------------------------------
\* C3
\* ------------------------------------------------------------------------

\* C3 as claimed: a call with registered start and end and speed <= 0 is
\* refused: it never enters the search, and it ends neither in a route nor
\* in one of the other messages.  (The program has no outcome for an
\* invalid speed; refusing would leave none of the states below.)
C3_NonPositiveSpeedRefused ==
    (pc # "setup" /\ Registered(startNode) /\ Registered(endNode) /\ speed <= 0) =>
        pc \notin {"search", "walk", "route", "unreachable", "invalid_city", "bad_alloc"}

\* ------------------------------------------------------------------------
\* C4
\* ------------------------------------------------------------------------

\* C4 as claimed: a call whose start or end was never registered with
\* addCity ends with the message for an invalid city, and runs no search.
C4_UnregisteredCityRefused ==
    (pc # "setup" /\ ~(Registered(startNode) /\ Registered(endNode))) =>
        pc = "invalid_city"

\* ------------------------------------------------------------------------
\* C5
\* ------------------------------------------------------------------------

\* C5: when start and end are registered, no path joins them and speed > 0,
\* the search ends in the message for unreachable cities: the walk along
\* the predecessors is not started and nothing is printed as a route (the
\* sentinel INF is not printed as a total time).
C5_Unreachable ==
    (SearchEnded /\ ValidCall /\ ~Connected(startNode, endNode)) =>
        /\ pc = "unreachable"
        /\ path = <<>>
        /\ out = NoOutput

\* The search ran over roads, expanded more than the start, and ended in
\* the message.
C5_Witness ==
    /\ pc = "unreachable"
    /\ ValidCall
    /\ ~Connected(startNode, endNode)
    /\ \E c \in CityIndex : c # startNode /\ expanded[c] = 1

\* ------------------------------------------------------------------------
\* findRoute as a function of its arguments
\* ------------------------------------------------------------------------

\* The while loop run to its end from the search state st.
RECURSIVE runSearch(_, _, _)
runSearch(st, roads, spd) ==
    IF st.pq = {} THEN st
    ELSE runSearch(popNode(st, CHOOSE top \in st.pq : IsTop(st.pq, top), roads, spd),
                   roads, spd)

\* The number of cities on the way from v back along the predecessors; the
\* walk is given up after n cities.
RECURSIVE chainLength(_, _, _)
chainLength(par, v, n) ==
    IF v = -1 \/ n = 0 THEN 0 ELSE 1 + chainLength(par, par[v], n - 1)

\* What findRoute(s, e, spd) ends in on the map `roads` with `count` as
\* cityCount, for a speed > 0: the outcome, the total time and the number of
\* legs of the receipt.
findRouteResult(roads, count, s, e, spd) ==
    IF InvalidCityId(s, e, count)
    THEN [kind |-> "invalid_city", totalTime |-> Zero, legs |-> 0]
    ELSE LET st == runSearch(StartSearch(s), roads, spd)
         IN  IF IsUnreachable(st.minTime, e)
             THEN [kind |-> "unreachable", totalTime |-> Zero, legs |-> 0]
             ELSE [kind |-> "route", totalTime |-> st.minTime[e],
                   legs |-> chainLength(st.parent, e, MAX_CITIES) - 1]

\* ------------------------------------------------------------------------
\* C6
\* ------------------------------------------------------------------------

\* C6 as claimed: every findRoute call, whatever the speed, runs on until it
\* ends in a route or in one of the two messages: a call that can take no
\* further step has ended in one of these (the queue has become empty and
\* the walk along the predecessors has reached the start).
C6_Terminates ==
    (pc # "setup" /\ ~Running) => pc \in Outcomes

\* ------------------------------------------------------------------------
\* C7
\* ------------------------------------------------------------------------

\* C7 as claimed: for registered A and B and speed > 0, findRoute(A, B) is
\* unreachable exactly when findRoute(B, A) is, and otherwise the two total
\* times are equal.
C7_Symmetric ==
    (pc \in {"unreachable", "route"} /\ ValidCall) =>
        LET back == findRouteResult(adj, cityCount, endNode, startNode, speed)
        IN  /\ (pc = "unreachable") <=> (back.kind = "unreachable")
            /\ pc = "route" => back.kind = "route" /\ out.totalTime = back.totalTime

\* C7, amended: for registered A and B and speed > 0, findRoute(A, B) is
\* unreachable exactly when findRoute(B, A) is; and the two total times are
\* equal when both routes have at most two legs.  (With three legs or more
\* the times of the roads are added in opposite orders, and the two sums,
\* each rounded after every addition, can differ.)
C7_SymmetricUpToTwoLegs ==
    (pc \in {"unreachable", "route"} /\ ValidCall) =>
        LET back == findRouteResult(adj, cityCount, endNode, startNode, speed)
        IN  /\ (pc = "unreachable") <=> (back.kind = "unreachable")
            /\ (pc = "route" /\ Len(out.legs) <= 2 /\ back.legs <= 2)
                  => out.totalTime = back.totalTime

\* A route of two legs whose reverse has two legs as well.
C7_Witness ==
    /\ pc = "route"
    /\ ValidCall
    /\ Len(out.legs) = 2
    /\ findRouteResult(adj, cityCount, endNode, startNode, speed).legs = 2

\* ------------------------------------------------------------------------
\* C8
\* ------------------------------------------------------------------------

\* C8: on a fixed map, for registered start and end with a route at speed
\* s1 > 0, findRoute at every speed s2 >= s1 finds a route as well, and its
\* total time is not greater.
C8_MonotoneInSpeed ==
    (pc = "route" /\ ValidCall) =>
        \A s2 \in {x \in Speeds : x >= speed} :
            LET faster == findRouteResult(adj, cityCount, startNode, endNode, s2)
            IN  /\ faster.kind = "route"
                /\ ~FLess(out.totalTime, faster.totalTime)

\* A route of at least two legs that takes strictly less time at a higher speed.
C8_Witness ==
    /\ pc = "route"
    /\ ValidCall
    /\ Len(out.legs) >= 2
    /\ \E s2 \in Speeds :
          /\ s2 > speed
          /\ FLess(findRouteResult(adj, cityCount, startNode, endNode, s2).totalTime,
                   out.totalTime)

\* ------------------------------------------------------------------------
\* C9
\* ------------------------------------------------------------------------

Labels(c) == <<minTime[c], parent[c], pathDist[c], fuelConsumed[c]>>

\* C9: during a call with speed > 0, no city's roads are relaxed more than
\* once; a step that pops an entry whose time exceeds the minTime of its
\* city changes nothing but the queue, which loses that entry; and once a
\* city's roads have been relaxed, its minTime, predecessor, distance and
\* fuel do not change in any later step of the search.
C9_LabelSetting ==
    /\ [](speed > 0 => \A c \in CityIndex : expanded[c] <= 1)
    /\ [][(pc = "search" /\ speed > 0) =>
            /\ \A top \in pq \ pq' :
                  FLess(minTime[top.id], top.timeCost) =>
                      /\ pq' = pq \ {top}
                      /\ UNCHANGED <<minTime, parent, pathDist, fuelConsumed, expanded>>
            /\ \A c \in CityIndex :
                  expanded[c] >= 1 =>
                      /\ expanded'[c] = expanded[c]
                      /\ <<minTime'[c], parent'[c], pathDist'[c], fuelConsumed'[c]>>
                            = Labels(c)
         ]_vars

\* An entry that is out of date is on top of the queue: its city's roads
\* have been relaxed, from a smaller time.
C9_Witness ==
    /\ pc = "search"
    /\ speed > 0
    /\ \E top \in pq :
          /\ IsTop(pq, top)
          /\ FLess(minTime[top.id], top.timeCost)
          /\ expanded[top.id] = 1

\* ------------------------------------------------------------------------
\* C10
\* ------------------------------------------------------------------------

\* Following the predecessors from v leads to the start within n steps.
RECURSIVE LeadsToStart(_, _)
LeadsToStart(v, n) ==
    IF v = startNode THEN TRUE
    ELSE IF v = -1 \/ n = 0 THEN FALSE
    ELSE LeadsToStart(parent[v], n - 1)

\* C10: when the search of a call with speed > 0 has ended, the start has no
\* predecessor and time, distance and fuel zero; every other reached city v
\* has a reached predecessor u and a road u -> v with minTime[v] =
\* minTime[u] + the road's time, pathDist[v] = pathDist[u] + its length and
\* fuelConsumed[v] = fuelConsumed[u] + its fuel; the predecessors lead from
\* every reached city back to the start (so there is no cycle); and the
\* receipt's path is that chain from end to start, its totals the values of
\* end.
C10_PredecessorChain ==
    (SearchEnded /\ speed > 0) =>
        /\ parent[startNode] = -1
        /\ minTime[startNode] = Zero
        /\ pathDist[startNode] = Zero
        /\ fuelConsumed[startNode] = Zero
        /\ \A v \in CityIndex :
              (v # startNode /\ minTime[v] # INF) =>
                  LET u == parent[v]
                  IN  /\ u \in CityIndex
                      /\ minTime[u] # INF
                      /\ LeadsToStart(v, MAX_CITIES)
                      /\ \E ed \in EdgesOf(adj, u) :
                            /\ ed.destination = v
                            /\ minTime[v] = FAdd(minTime[u], realTime(ed, speed))
                            /\ pathDist[v] = FAdd(pathDist[u], ed.distanceKM)
                            /\ fuelConsumed[v] =
                                  FAdd(fuelConsumed[u], segmentFuel(ed, speed))
        /\ pc = "route" =>
              /\ path # <<>>
              /\ path[1] = endNode
              /\ path[Len(path)] = startNode
              /\ \A k \in 1 .. (Len(path) - 1) : path[k + 1] = parent[path[k]]
              /\ out.totalTime = minTime[endNode]
              /\ out.totalDist = pathDist[endNode]
              /\ out.totalFuel = fuelConsumed[endNode]

\* A receipt of two legs or more has been printed, to a city that a road
\* joins to the start and whose predecessor is another city.
C10_Witness ==
    /\ pc = "route"
    /\ speed > 0
    /\ Len(out.legs) >= 2
    /\ DirectRoads(startNode, endNode) # {}
    /\ parent[endNode] # startNode

\* ------------------------------------------------------------------------
\* C11
\* ------------------------------------------------------------------------

\* The distances of the first k legs, added up in the order of the receipt.
RECURSIVE legDistSum(_, _)
legDistSum(legs, k) ==
    IF k = 0 THEN Zero ELSE FAdd(legDistSum(legs, k - 1), legs[k].dist)

\* The roads from u to v that account for the labels of v: the search set
\* minTime[v] and pathDist[v] when it relaxed one of them from u.
RelaxedRoads(u, v) ==
    {ed \in DirectRoads(u, v) :
        /\ minTime[v] = FAdd(minTime[u], realTime(ed, speed))
        /\ pathDist[v] = FAdd(pathDist[u], ed.distanceKM)}

\* C11 as claimed: in every receipt of a call with registered start and end
\* and speed > 0, on maps with parallel roads as well, the legs run from
\* start to end, each beginning where the one before ends; each leg names a
\* road its city's labels were relaxed over, with that road's length; and the
\* lengths of the legs add up to the total distance.
C11_LegsAreRelaxedRoads ==
    (pc = "route" /\ ValidCall) =>
        LET legs == out.legs
            n == Len(legs)
        IN  /\ n = 0 => startNode = endNode
            /\ n > 0 => legs[1].from = startNode /\ legs[n].to = endNode
            /\ \A k \in 1 .. (n - 1) : legs[k].to = legs[k + 1].from
            /\ \A k \in 1 .. n :
                  \E ed \in RelaxedRoads(legs[k].from, legs[k].to) :
                      /\ legs[k].roadName = ed.roadName
                      /\ legs[k].dist = ed.distanceKM
            /\ legDistSum(legs, n) = out.totalDist

====
